---- MODULE Spec2Model ----
(***************************************************************************)
(* config-plane: a branched, versioned configuration store with three      *)
(* backends (memory, sql, git) behind one ConfigRepo contract.             *)
(*                                                                         *)
(* The backing store of each backend is one record (memory, database,      *)
(* gitworld) that holds the shared state and the fields of every Repo      *)
(* instance.  Every method is an operator from such a record to the record *)
(* after the call, with a companion operator <method>_res for how the call *)
(* ends ("ok" or the exception it raises); the actions apply them.  The    *)
(* backend is chosen in Init and never changes, so every formula is        *)
(* checked against each of the three backends.                             *)
(***************************************************************************)
EXTENDS Naturals, Integers, Sequences, FiniteSets, TLC

\* ------------------------------------------------------------- bounds
MaxSnapshots == 3      \* rows of the sql table "snapshots"
MaxBlobs     == 2      \* rows of the sql table "blobs"
MaxCommits   == 3      \* git commit objects
MaxSessionSnapshots == 4   \* rows of "snapshots" once a commit by steps has ended

\* ------------------------------------------------------------- values
Backends    == {"memory", "sql", "git"}
Repos       == {"A", "B"}
Keys        == {"a", "b", "c"}
WrittenKeys == {"a", "b"}           \* the keys the calls of Next write
Blobs       == {"v1", "v2", "v3"}
WrittenBlobs == {"v1", "v2"}        \* the blobs the calls of Next write
BranchNames == {"master", "dev"}
None        == "None"
NULL        == 0

VARIABLES
    backend,        \* which implementation the factory returned
    opened,         \* opened[r]: Repo instance r has been constructed
    memory,         \* memory backend: the shared MemoryRepoData and the instances
    database,       \* sql backend: the four tables and the instances
    gitworld,       \* git backend: the commits, the remote, the clones, the instances
    session         \* session[r]: how far the commit() that r is executing has got

vars == <<backend, opened, memory, database, gitworld, session>>

\* ------------------------------------------------------------- dicts
\* A Python dict is a function whose DOMAIN is the set of its keys.
EmptyDict == [k \in {} |-> None]

\* d.get(k, default)
DictGet(d, k, default) == IF k \in DOMAIN d THEN d[k] ELSE default

\* {**d, k: v}
DictPut(d, k, v) == [x \in DOMAIN d \cup {k} |-> IF x = k THEN v ELSE d[x]]

\* del d[k]
DictDel(d, k) == [x \in DOMAIN d \ {k} |-> d[x]]

\* {**d, **e}
DictMerge(d, e) == [x \in DOMAIN d \cup DOMAIN e |-> IF x \in DOMAIN e THEN e[x] ELSE d[x]]

\* ------------------------------------------------------------- memory backend
\* m.repo    : MemoryRepoData, branch -> (key -> Blob), shared by the instances
\* m.inst[r] : the fields of MemoryConfigRepo r: branch, base (the snapshot's
\*             data), data (the stage's overrides)
MemoryConfigSnapshot_get(data, key) == DictGet(data, key, None)

MemoryConfigStage_get(m, r, key) ==
    IF key \in DOMAIN m.inst[r].data
    THEN m.inst[r].data[key]
    ELSE MemoryConfigSnapshot_get(m.inst[r].base, key)

\* Variant of set that takes an override back when it is set to the value it
\* already has
MemoryConfigStage_set_Toggle(data, key, value) ==
    IF value = None \/ (key \in DOMAIN data /\ data[key] = value)
    THEN IF key \in DOMAIN data THEN DictDel(data, key) ELSE data
    ELSE DictPut(data, key, value)

MemoryConfigStage_set(data, key, value) ==
    IF value = None
    THEN IF key \in DOMAIN data THEN DictDel(data, key) ELSE data
    ELSE DictPut(data, key, value)

MemoryConfigStage_is_dirty(m, r) == Cardinality(DOMAIN m.inst[r].data) > 0

\* Variant of freeze in which the parent's entries win over the overrides
MemoryConfigStage_freeze_ParentWins(m, r) == DictMerge(m.inst[r].data, m.inst[r].base)

MemoryConfigStage_freeze(m, r) == DictMerge(m.inst[r].base, m.inst[r].data)

\* Variant of reload that resets the stage but keeps the old base
MemoryConfigRepo_reload_KeepBase(m, r) == [m EXCEPT !.inst[r].data = EmptyDict]

\* reload(): base = snapshot of repo.get(branch, {}), stage = a new empty stage
MemoryConfigRepo_reload(m, r) ==
    [m EXCEPT !.inst[r].base = DictGet(m.repo, m.inst[r].branch, EmptyDict),
              !.inst[r].data = EmptyDict]

MemoryConfigRepo_init(m, r, branch) ==
    MemoryConfigRepo_reload([m EXCEPT !.inst[r].branch = branch], r)

MemoryConfigRepo_set(m, r, key, value) ==
    [m EXCEPT !.inst[r].data = MemoryConfigStage_set(@, key, value)]

MemoryConfigRepo_commit(m, r) ==
    IF ~MemoryConfigStage_is_dirty(m, r)
    THEN m
    ELSE LET new_base == MemoryConfigStage_freeze(m, r) IN
         [m EXCEPT !.repo = DictPut(@, m.inst[r].branch, new_base),
                   !.inst[r].base = new_base,
                   !.inst[r].data = EmptyDict]

MemoryConfigRepo_switch_branch_res(m, r, branch) ==
    IF MemoryConfigStage_is_dirty(m, r) THEN "RuntimeError" ELSE "ok"

\* Variant of switch_branch without the dirty guard
MemoryConfigRepo_switch_branch_Unguarded(m, r, branch) ==
    MemoryConfigRepo_reload([m EXCEPT !.inst[r].branch = branch], r)

MemoryConfigRepo_switch_branch(m, r, branch) ==
    IF MemoryConfigStage_is_dirty(m, r)
    THEN m
    ELSE MemoryConfigRepo_reload([m EXCEPT !.inst[r].branch = branch], r)

MemoryConfigRepo_create_branch_res(m, r, new_branch, from_branch) ==
    IF new_branch \in DOMAIN m.repo THEN "ValueError" ELSE "ok"

MemoryConfigRepo_create_branch(m, r, new_branch, from_branch) ==
    IF new_branch \in DOMAIN m.repo
    THEN m
    ELSE LET source == IF from_branch = None THEN m.inst[r].branch ELSE from_branch IN
         [m EXCEPT !.repo = DictPut(@, new_branch, DictGet(m.repo, source, EmptyDict))]

MemoryConfigRepo_list_branches(m) == DOMAIN m.repo

\* MemoryConfigRepo and SqlConfigRepo define no merge: the call reaches
\* ConfigRepo.merge, which raises
ConfigRepo_merge_res == "NotImplementedError"

\* The committed head of a branch, as a dict (empty when the branch is unknown)
MemoryHead(m, b) == DictGet(m.repo, b, EmptyDict)

\* ------------------------------------------------------------- sql backend
\* d.blobs, d.snapshots, d.snapshot_items, d.branches : the four tables
\* d.inst[r] : the fields of SqlConfigRepo r: branch, parent_snapshot (the id,
\*             or NULL), stage_snapshot_id.  The stage object holds the same
\*             parent and snapshot id as the Repo at all times.
\* Autoincrement primary keys: rows are never deleted, so the next id is count + 1.
NextSnapshotId(d) == Len(d.snapshots) + 1

NextBlobId(d) == Len(d.blobs) + 1

SnapshotModel(parent_id, committed) == [parent_id |-> parent_id, committed |-> committed]

\* select(SnapshotItemModel).where(snapshot_id == sid, key == key), then the blob
SqlConfigSnapshot_get(d, sid, key) ==
    IF <<sid, key>> \notin DOMAIN d.snapshot_items THEN None
    ELSE IF d.snapshot_items[<<sid, key>>] = NULL THEN None
    ELSE d.blobs[d.snapshot_items[<<sid, key>>]]

SqlConfigStage_get(d, r, key) ==
    LET sid == d.inst[r].stage_snapshot_id IN
    IF <<sid, key>> \in DOMAIN d.snapshot_items
    THEN IF d.snapshot_items[<<sid, key>>] = NULL
         THEN None
         ELSE d.blobs[d.snapshot_items[<<sid, key>>]]
    ELSE IF d.inst[r].parent_snapshot # NULL
         THEN SqlConfigSnapshot_get(d, d.inst[r].parent_snapshot, key)
         ELSE None

SqlConfigStage_set(d, r, key, value) ==
    LET it == <<d.inst[r].stage_snapshot_id, key>> IN
    IF it \in DOMAIN d.snapshot_items
    THEN IF value = None
         THEN [d EXCEPT !.snapshot_items[it] = NULL]
         ELSE IF d.snapshot_items[it] # NULL
              THEN [d EXCEPT !.blobs[d.snapshot_items[it]] = value]
              ELSE [d EXCEPT !.blobs = Append(@, value),
                             !.snapshot_items[it] = NextBlobId(d)]
    ELSE IF value # None
         THEN [d EXCEPT !.blobs = Append(@, value),
                        !.snapshot_items = DictPut(@, it, NextBlobId(d))]
         ELSE [d EXCEPT !.snapshot_items = DictPut(@, it, NULL)]

SqlConfigStage_is_dirty(d, r) ==
    \E it \in DOMAIN d.snapshot_items : it[1] = d.inst[r].stage_snapshot_id

\* Variant of _finalize_commit that copies the parent's rows but leaves the
\* committed flag as it is
SqlConfigStage_finalize_commit_Unmarked(d, r) ==
    LET sid    == d.inst[r].stage_snapshot_id
        parent == d.inst[r].parent_snapshot
        items  == d.snapshot_items
        rows_to_insert ==
            IF parent = NULL THEN {}
            ELSE {k \in Keys : /\ <<parent, k>> \in DOMAIN items
                               /\ <<sid, k>> \notin DOMAIN items}
    IN  [d EXCEPT
            !.snapshot_items =
                [it \in DOMAIN items \cup {<<sid, k>> : k \in rows_to_insert} |->
                    IF it \in DOMAIN items THEN items[it] ELSE items[<<parent, it[2]>>]]]

\* Variant of _finalize_commit that marks the snapshot without copying a row
SqlConfigStage_finalize_commit_NoCopy(d, r) ==
    [d EXCEPT !.snapshots[d.inst[r].stage_snapshot_id].committed = TRUE]

\* _finalize_commit: copy the parent's rows for keys the stage has no row for,
\* then mark the stage snapshot committed
SqlConfigStage_finalize_commit(d, r) ==
    LET sid    == d.inst[r].stage_snapshot_id
        parent == d.inst[r].parent_snapshot
        items  == d.snapshot_items
        rows_to_insert ==
            IF parent = NULL THEN {}
            ELSE {k \in Keys : /\ <<parent, k>> \in DOMAIN items
                               /\ <<sid, k>> \notin DOMAIN items}
    IN  [d EXCEPT
            !.snapshot_items =
                [it \in DOMAIN items \cup {<<sid, k>> : k \in rows_to_insert} |->
                    IF it \in DOMAIN items THEN items[it] ELSE items[<<parent, it[2]>>]],
            !.snapshots[sid].committed = TRUE]

\* _init_stage_from_branch: bind to the branch row (if any), allocate a stage row
SqlConfigRepo_init_stage_from_branch(d, r, branch) ==
    LET parent_id == DictGet(d.branches, branch, NULL) IN
    [d EXCEPT !.snapshots = Append(@, SnapshotModel(parent_id, FALSE)),
              !.inst[r] = [branch |-> branch, parent_snapshot |-> parent_id,
                           stage_snapshot_id |-> NextSnapshotId(d)]]

\* SqlConfigRepo(session_maker, None, branch)
SqlConfigRepo_init(d, r, branch) == SqlConfigRepo_init_stage_from_branch(d, r, branch)

\* Variant of the resuming constructor that does not read the committed flag
SqlConfigRepo_resume_res_Unchecked(d, r, stage_snapshot_id, branch) ==
    IF stage_snapshot_id \notin DOMAIN d.snapshots THEN "NoResultFound" ELSE "ok"

\* SqlConfigRepo(session_maker, stage_snapshot_id, branch): resuming a stage.
\* scalar_one() raises when the row is missing; a committed row is refused.
SqlConfigRepo_resume_res(d, r, stage_snapshot_id, branch) ==
    IF stage_snapshot_id \notin DOMAIN d.snapshots THEN "NoResultFound"
    ELSE IF d.snapshots[stage_snapshot_id].committed THEN "ValueError"
    ELSE "ok"

SqlConfigRepo_resume(d, r, stage_snapshot_id, branch) ==
    IF SqlConfigRepo_resume_res(d, r, stage_snapshot_id, branch) # "ok"
    THEN d
    ELSE [d EXCEPT !.inst[r] = [branch |-> branch,
                                parent_snapshot |-> d.snapshots[stage_snapshot_id].parent_id,
                                stage_snapshot_id |-> stage_snapshot_id]]

\* commit() after _finalize_commit: the branch row is moved (or created) and the
\* new stage snapshot is added, in the session f of the commit
SqlConfigRepo_commit_branch(f, r) ==
    LET sid == f.inst[r].stage_snapshot_id
    IN  [f EXCEPT !.branches = DictPut(@, f.inst[r].branch, sid),
                  !.snapshots = Append(@, SnapshotModel(sid, FALSE)),
                  !.inst[r].parent_snapshot = sid,
                  !.inst[r].stage_snapshot_id = NextSnapshotId(f)]

SqlConfigRepo_commit(d, r) ==
    SqlConfigRepo_commit_branch(SqlConfigStage_finalize_commit(d, r), r)

\* Variant of session.commit() that stores the branch rows of the session and
\* none of its other rows
SqlSession_commit_BranchOnly(d, txn, r) ==
    [d EXCEPT !.branches = txn.branches, !.inst[r] = txn.inst[r]]

\* commit() when its session.commit() raises: the rows of the session are rolled
\* back, the fields commit() assigned before (parent_snapshot, stage_snapshot_id,
\* stage) stay
SqlConfigRepo_commit_rollback(d, r) ==
    [d EXCEPT !.inst[r].parent_snapshot = d.inst[r].stage_snapshot_id,
              !.inst[r].stage_snapshot_id = NextSnapshotId(d)]

\* session.commit() at the end of commit(): the rows written in the session txn
\* of r replace the stored ones; the fields of the other instances are theirs
SqlSession_commit(d, txn, r) ==
    [txn EXCEPT !.inst = [x \in Repos |-> IF x = r THEN txn.inst[x] ELSE d.inst[x]]]

SqlConfigRepo_switch_branch_res(d, r, branch) ==
    IF SqlConfigStage_is_dirty(d, r) THEN "RuntimeError" ELSE "ok"

SqlConfigRepo_switch_branch(d, r, branch) ==
    IF SqlConfigStage_is_dirty(d, r)
    THEN d
    ELSE SqlConfigRepo_init_stage_from_branch(d, r, branch)

SqlConfigRepo_create_branch_res(d, r, new_branch, from_branch) ==
    LET source_name == IF from_branch = None THEN d.inst[r].branch ELSE from_branch IN
    IF new_branch \in DOMAIN d.branches THEN "ValueError"
    ELSE IF source_name \notin DOMAIN d.branches THEN "ValueError"
    ELSE "ok"

SqlConfigRepo_create_branch(d, r, new_branch, from_branch) ==
    LET source_name == IF from_branch = None THEN d.inst[r].branch ELSE from_branch IN
    IF SqlConfigRepo_create_branch_res(d, r, new_branch, from_branch) # "ok"
    THEN d
    ELSE [d EXCEPT !.branches = DictPut(@, new_branch, d.branches[source_name])]

SqlConfigRepo_list_branches(d) == DOMAIN d.branches

SqlConfigRepo_reload(d, r) ==
    [d EXCEPT !.inst[r].parent_snapshot = DictGet(d.branches, d.inst[r].branch, NULL)]

\* The content of snapshot sid read one level deep, as a dict
SnapshotContent(d, sid) ==
    [k \in {x \in Keys : SqlConfigSnapshot_get(d, sid, x) # None} |->
        SqlConfigSnapshot_get(d, sid, k)]

SqlHead(d, b) ==
    IF b \in DOMAIN d.branches THEN SnapshotContent(d, d.branches[b]) ELSE EmptyDict

\* ------------------------------------------------------------- git backend
\* g.commits  : the commit objects, hash -> (tree, parents); a hash is the
\*              position of the commit in the sequence
\* g.origin   : the bare remote, branch -> hash
\* g.clone[r] : the repository at the work path of instance r: exists (.git is
\*              there), HEAD (the branch checked out), refs (local branches),
\*              remotes (origin/* as last fetched), worktree (the files),
\*              merge_head (MERGE_HEAD of an unconcluded merge, or NULL).
\*              The index equals the tree of HEAD outside of a call.
\* g.inst[r]  : the fields of GitConfigRepo r: branch, base (a hash)
CommitObject(tree, parents) == [tree |-> tree, parents |-> parents]

NoClone == [exists |-> FALSE, HEAD |-> "master", refs |-> EmptyDict, remotes |-> EmptyDict,
            worktree |-> EmptyDict, merge_head |-> NULL]

RECURSIVE Ancestors(_, _)
\* The commits reachable from c, c included
Ancestors(g, c) ==
    {c} \cup UNION {Ancestors(g, p) : p \in g.commits[c].parents}

IsAncestor(g, a, b) == a \in Ancestors(g, b)

\* rev-parse HEAD
RevParseHead(g, r) == g.clone[r].refs[g.clone[r].HEAD]

HeadTree(g, r) == g.commits[RevParseHead(g, r)].tree

\* The paths on which two trees differ
Changed(t1, t2) == {k \in Keys : DictGet(t1, k, None) # DictGet(t2, k, None)}

\* git refuses to move the work tree from tree ours to tree new when a path
\* that differs between them holds a file that is not the one of ours (a local
\* modification or an untracked file); a file missing from disk does not block
WouldOverwrite(wt, ours, new) ==
    \E k \in Changed(ours, new) : k \in DOMAIN wt /\ wt[k] # DictGet(ours, k, None)

\* The work tree after the move: the paths that differ are taken from new
MoveWorktree(wt, ours, new) ==
    LET val(k) == IF k \in Changed(ours, new) THEN DictGet(new, k, None)
                  ELSE DictGet(wt, k, None)
    IN  [k \in {x \in Keys : val(x) # None} |-> val(k)]

\* git status --porcelain is non-empty
GitConfigStage_is_dirty(g, r) ==
    \/ g.clone[r].worktree # HeadTree(g, r)
    \/ g.clone[r].merge_head # NULL

GitConfigStage_get(g, r, key) == DictGet(g.clone[r].worktree, key, None)

\* write_bytes, or unlink if the file exists
GitConfigStage_set(g, r, key, value) ==
    IF value = None
    THEN IF key \in DOMAIN g.clone[r].worktree
         THEN [g EXCEPT !.clone[r].worktree = DictDel(@, key)]
         ELSE g
    ELSE [g EXCEPT !.clone[r].worktree = DictPut(@, key, value)]

\* freeze(): git add . ; git commit, on the branch git has checked out
GitConfigStage_freeze(g, r) ==
    IF ~GitConfigStage_is_dirty(g, r)
    THEN g
    ELSE LET c == g.clone[r]
             parents == {RevParseHead(g, r)} \cup
                        (IF c.merge_head = NULL THEN {} ELSE {c.merge_head})
             new_hash == Len(g.commits) + 1
         IN  [g EXCEPT !.commits = Append(@, CommitObject(c.worktree, parents)),
                       !.clone[r].refs = DictPut(@, c.HEAD, new_hash),
                       !.clone[r].merge_head = NULL]

\* git push origin <branch>: needs the local branch, and a fast-forward of the
\* remote one
GitPush_ok(g, r, branch) ==
    /\ branch \in DOMAIN g.clone[r].refs
    /\ branch \in DOMAIN g.origin => IsAncestor(g, g.origin[branch], g.clone[r].refs[branch])

GitPush(g, r, branch) ==
    IF GitPush_ok(g, r, branch)
    THEN [g EXCEPT !.origin = DictPut(@, branch, g.clone[r].refs[branch]),
                   !.clone[r].remotes = DictPut(@, branch, g.clone[r].refs[branch])]
    ELSE g

\* Joining commit theirs into the checked-out branch when one is an ancestor of
\* the other: nothing to do, or a fast-forward
GitFastForward_ok(g, r, theirs) ==
    \/ IsAncestor(g, theirs, RevParseHead(g, r))
    \/ /\ IsAncestor(g, RevParseHead(g, r), theirs)
       /\ ~WouldOverwrite(g.clone[r].worktree, HeadTree(g, r), g.commits[theirs].tree)

GitFastForward(g, r, theirs) ==
    IF IsAncestor(g, theirs, RevParseHead(g, r))
    THEN g
    ELSE [g EXCEPT !.clone[r].refs = DictPut(@, g.clone[r].HEAD, theirs),
                   !.clone[r].worktree =
                        MoveWorktree(@, HeadTree(g, r), g.commits[theirs].tree)]

\* git pull origin <branch>: fetch the branch, then join it into the checked-out
\* branch.  Diverged histories are not reconciled (no pull.rebase, no pull.ff).
GitPull(g, r, branch) ==
    IF g.clone[r].merge_head # NULL \/ branch \notin DOMAIN g.origin
    THEN g
    ELSE LET f == [g EXCEPT !.clone[r].remotes = DictPut(@, branch, g.origin[branch])] IN
         IF GitFastForward_ok(f, r, g.origin[branch])
         THEN GitFastForward(f, r, g.origin[branch])
         ELSE f

\* git checkout <branch>: a local branch, or a new one tracking origin/<branch>
GitCheckout_ok(g, r, branch) ==
    LET c == g.clone[r] IN
    /\ c.merge_head = NULL
    /\ branch \in DOMAIN c.refs \cup DOMAIN c.remotes
    /\ LET target == IF branch \in DOMAIN c.refs THEN c.refs[branch] ELSE c.remotes[branch]
       IN  ~WouldOverwrite(c.worktree, HeadTree(g, r), g.commits[target].tree)

GitCheckout(g, r, branch) ==
    LET c == g.clone[r]
        target == IF branch \in DOMAIN c.refs THEN c.refs[branch] ELSE c.remotes[branch]
    IN  [g EXCEPT !.clone[r].HEAD = branch,
                  !.clone[r].refs = DictPut(@, branch, target),
                  !.clone[r].worktree =
                        MoveWorktree(@, HeadTree(g, r), g.commits[target].tree)]

\* reload(): pull (a failure is swallowed), then base = rev-parse HEAD
GitConfigRepo_reload(g, r) ==
    LET p == GitPull(g, r, g.inst[r].branch) IN
    [p EXCEPT !.inst[r].base = RevParseHead(p, r)]

\* git clone -b <branch> <remote_url>
GitClone(g, r, branch) ==
    [g EXCEPT !.clone[r] = [exists |-> TRUE, HEAD |-> branch,
                            refs |-> DictPut(EmptyDict, branch, g.origin[branch]),
                            remotes |-> g.origin,
                            worktree |-> g.commits[g.origin[branch]].tree,
                            merge_head |-> NULL]]

GitConfigRepo_init_res(g, r, branch) ==
    IF ~g.clone[r].exists
    THEN IF branch \in DOMAIN g.origin THEN "ok" ELSE "CalledProcessError"
    ELSE IF g.clone[r].HEAD # branch /\ ~GitCheckout_ok(g, r, branch)
         THEN "CalledProcessError"
         ELSE "ok"

GitConfigRepo_init(g, r, branch) ==
    IF GitConfigRepo_init_res(g, r, branch) # "ok"
    THEN g
    ELSE LET c == IF ~g.clone[r].exists THEN GitClone(g, r, branch)
                  ELSE IF g.clone[r].HEAD # branch THEN GitCheckout(g, r, branch)
                  ELSE g
         IN  GitConfigRepo_reload([c EXCEPT !.inst[r].branch = branch], r)

\* commit(): freeze, then push; a rejected push raises after the local commit
GitConfigRepo_commit_res(g, r) ==
    IF GitPush_ok(GitConfigStage_freeze(g, r), r, g.inst[r].branch)
    THEN "ok" ELSE "CalledProcessError"

\* commit() up to the push: self.base = self.stage.freeze()
GitConfigRepo_commit_freeze(g, r) ==
    LET f == GitConfigStage_freeze(g, r)
        new_base == IF GitConfigStage_is_dirty(g, r) THEN RevParseHead(f, r)
                    ELSE g.inst[r].base
    IN  [f EXCEPT !.inst[r].base = new_base]

GitConfigRepo_commit(g, r) ==
    GitPush(GitConfigRepo_commit_freeze(g, r), r, g.inst[r].branch)

GitConfigRepo_switch_branch_res(g, r, branch) ==
    IF GitConfigStage_is_dirty(g, r) THEN "RuntimeError"
    ELSE IF ~GitCheckout_ok(g, r, branch) THEN "CalledProcessError"
    ELSE "ok"

GitConfigRepo_switch_branch(g, r, branch) ==
    IF GitConfigRepo_switch_branch_res(g, r, branch) # "ok"
    THEN g
    ELSE GitConfigRepo_reload([GitCheckout(g, r, branch) EXCEPT !.inst[r].branch = branch], r)

\* create_branch: git checkout -b <new> when branching from self.branch, else
\* git branch <new> <start_point>
GitConfigRepo_create_branch_res(g, r, new_branch, from_branch) ==
    LET start_point == IF from_branch = None THEN g.inst[r].branch ELSE from_branch
        c == g.clone[r]
    IN  IF new_branch \in DOMAIN c.refs THEN "CalledProcessError"
        ELSE IF start_point = g.inst[r].branch
             THEN IF c.merge_head # NULL THEN "CalledProcessError" ELSE "ok"
             ELSE IF start_point \notin DOMAIN c.refs THEN "CalledProcessError" ELSE "ok"

GitConfigRepo_create_branch(g, r, new_branch, from_branch) ==
    LET start_point == IF from_branch = None THEN g.inst[r].branch ELSE from_branch IN
    IF GitConfigRepo_create_branch_res(g, r, new_branch, from_branch) # "ok"
    THEN g
    ELSE IF start_point = g.inst[r].branch
         THEN [g EXCEPT !.clone[r].refs = DictPut(@, new_branch, RevParseHead(g, r)),
                        !.clone[r].HEAD = new_branch]
         ELSE [g EXCEPT !.clone[r].refs = DictPut(@, new_branch, g.clone[r].refs[start_point])]

\* git branch --format=%(refname:short)
GitConfigRepo_list_branches(g, r) == DOMAIN g.clone[r].refs

\* The best common ancestor of two commits
MergeBase(g, a, b) ==
    LET common == Ancestors(g, a) \cap Ancestors(g, b) IN
    CHOOSE c \in common : \A x \in common : IsAncestor(g, x, c) \/ ~IsAncestor(g, c, x)

\* Three-way merge of one path with -X theirs: a side that did not change the
\* path takes the other side's; both changed to a file: theirs
MergeEntry(base, ours, theirs) ==
    IF ours = theirs THEN ours
    ELSE IF ours = base THEN theirs
    ELSE IF theirs = base THEN ours
    ELSE theirs

\* Changed on both sides and deleted on one: -X theirs does not settle it
ModifyDelete(base, ours, theirs) ==
    /\ ours # theirs /\ ours # base /\ theirs # base
    /\ ours = None \/ theirs = None

\* The path as the failed merge leaves it on disk: the surviving file
ConflictEntry(base, ours, theirs) ==
    IF ModifyDelete(base, ours, theirs)
    THEN IF ours = None THEN theirs ELSE ours
    ELSE MergeEntry(base, ours, theirs)

\* The tree of the merge commit
MergeTrees(g, ours, theirs) ==
    LET b == g.commits[MergeBase(g, ours, theirs)].tree
        o == g.commits[ours].tree
        t == g.commits[theirs].tree
        val(k) == MergeEntry(DictGet(b, k, None), DictGet(o, k, None), DictGet(t, k, None))
    IN  [k \in {x \in Keys : val(x) # None} |-> val(k)]

\* The tree a merge that stops on a conflict leaves on disk
ConflictTrees(g, ours, theirs) ==
    LET b == g.commits[MergeBase(g, ours, theirs)].tree
        o == g.commits[ours].tree
        t == g.commits[theirs].tree
        val(k) == ConflictEntry(DictGet(b, k, None), DictGet(o, k, None), DictGet(t, k, None))
    IN  [k \in {x \in Keys : val(x) # None} |-> val(k)]

MergeConflicts(g, ours, theirs) ==
    LET b == g.commits[MergeBase(g, ours, theirs)].tree
        o == g.commits[ours].tree
        t == g.commits[theirs].tree
    IN  {k \in Keys : ModifyDelete(DictGet(b, k, None), DictGet(o, k, None), DictGet(t, k, None))}

\* The commit merge() merges: the local branch if there is one, else origin/<branch>
MergeTarget(g, r, branch) ==
    LET c == g.clone[r]
        fetched == DictMerge(c.remotes, g.origin)
    IN  IF branch \in DOMAIN c.refs THEN c.refs[branch]
        ELSE DictGet(fetched, branch, NULL)

\* git merge <target> -m ... -X theirs, after git fetch origin
GitMerge_res(g, r, branch) ==
    LET c == g.clone[r]
        theirs == MergeTarget(g, r, branch)
        ours == RevParseHead(g, r)
    IN  IF theirs = NULL \/ c.merge_head # NULL THEN "RuntimeError"
        ELSE IF IsAncestor(g, theirs, ours) \/ IsAncestor(g, ours, theirs)
             THEN IF GitFastForward_ok(g, r, theirs) THEN "ok" ELSE "RuntimeError"
             ELSE IF WouldOverwrite(c.worktree, HeadTree(g, r),
                                    ConflictTrees(g, ours, theirs))
                  THEN "RuntimeError"
                  ELSE IF MergeConflicts(g, ours, theirs) # {} THEN "RuntimeError"
                  ELSE "ok"

GitMerge(g, r, branch) ==
    LET f == [g EXCEPT !.clone[r].remotes = DictMerge(@, g.origin)]
        c == f.clone[r]
        theirs == MergeTarget(g, r, branch)
        ours == RevParseHead(g, r)
        new_hash == Len(g.commits) + 1
    IN  IF theirs = NULL \/ c.merge_head # NULL THEN f
        ELSE IF IsAncestor(g, theirs, ours) \/ IsAncestor(g, ours, theirs)
             THEN IF GitFastForward_ok(f, r, theirs) THEN GitFastForward(f, r, theirs) ELSE f
             ELSE IF WouldOverwrite(c.worktree, HeadTree(g, r),
                                    ConflictTrees(g, ours, theirs))
                  THEN f
                  ELSE IF MergeConflicts(g, ours, theirs) # {}
                  THEN [f EXCEPT !.clone[r].merge_head = theirs,
                                 !.clone[r].worktree =
                                    MoveWorktree(@, HeadTree(g, r),
                                                 ConflictTrees(g, ours, theirs))]
                  ELSE LET merged == MergeTrees(g, ours, theirs) IN
                       [f EXCEPT !.commits = Append(@, CommitObject(merged, {ours, theirs})),
                                 !.clone[r].refs = DictPut(@, c.HEAD, new_hash),
                                 !.clone[r].worktree = MoveWorktree(@, HeadTree(g, r), merged)]

\* merge(): fetch, merge, reload, push
GitConfigRepo_merge_res(g, r, branch) ==
    IF GitMerge_res(g, r, branch) # "ok" THEN "RuntimeError"
    ELSE IF GitPush_ok(GitConfigRepo_reload(GitMerge(g, r, branch), r), r, g.inst[r].branch)
         THEN "ok" ELSE "CalledProcessError"

GitConfigRepo_merge(g, r, branch) ==
    IF GitMerge_res(g, r, branch) # "ok"
    THEN GitMerge(g, r, branch)
    ELSE GitPush(GitConfigRepo_reload(GitMerge(g, r, branch), r), r, g.inst[r].branch)

\* The committed head of local branch b of the clone of r (empty when unknown)
GitHead(g, r, b) ==
    IF b \in DOMAIN g.clone[r].refs THEN g.commits[g.clone[r].refs[b]].tree ELSE EmptyDict

\* ------------------------------------------------------------- the contract
\* The whole state as one record s, and each ConfigRepo method on it.
State == [backend |-> backend, opened |-> opened, memory |-> memory,
          database |-> database, gitworld |-> gitworld]

\* repo.get(key)
get(s, r, key) ==
    CASE s.backend = "memory" -> MemoryConfigStage_get(s.memory, r, key)
      [] s.backend = "sql"    -> SqlConfigStage_get(s.database, r, key)
      [] s.backend = "git"    -> GitConfigStage_get(s.gitworld, r, key)

\* repo.is_dirty()
is_dirty(s, r) ==
    CASE s.backend = "memory" -> MemoryConfigStage_is_dirty(s.memory, r)
      [] s.backend = "sql"    -> SqlConfigStage_is_dirty(s.database, r)
      [] s.backend = "git"    -> GitConfigStage_is_dirty(s.gitworld, r)

\* repo.branch
current_branch(s, r) ==
    CASE s.backend = "memory" -> s.memory.inst[r].branch
      [] s.backend = "sql"    -> s.database.inst[r].branch
      [] s.backend = "git"    -> s.gitworld.inst[r].branch

\* repo.list_branches()
list_branches(s, r) ==
    CASE s.backend = "memory" -> MemoryConfigRepo_list_branches(s.memory)
      [] s.backend = "sql"    -> SqlConfigRepo_list_branches(s.database)
      [] s.backend = "git"    -> GitConfigRepo_list_branches(s.gitworld, r)

\* The content of the committed head of branch b in the store, as a dict
branch_head(s, r, b) ==
    CASE s.backend = "memory" -> MemoryHead(s.memory, b)
      [] s.backend = "sql"    -> SqlHead(s.database, b)
      [] s.backend = "git"    -> GitHead(s.gitworld, r, b)

\* The identity of the committed head of branch b, where the backend has one
head_id(s, r, b) ==
    CASE s.backend = "memory" -> MemoryHead(s.memory, b)
      [] s.backend = "sql"    -> DictGet(s.database.branches, b, NULL)
      [] s.backend = "git"    -> DictGet(s.gitworld.clone[r].refs, b, NULL)

init_res(s, r, branch) ==
    CASE s.backend = "memory" -> "ok"
      [] s.backend = "sql"    -> "ok"
      [] s.backend = "git"    -> GitConfigRepo_init_res(s.gitworld, r, branch)

init(s, r, branch) ==
    CASE s.backend = "memory" ->
            [s EXCEPT !.memory = MemoryConfigRepo_init(@, r, branch), !.opened[r] = TRUE]
      [] s.backend = "sql" ->
            [s EXCEPT !.database = SqlConfigRepo_init(@, r, branch), !.opened[r] = TRUE]
      [] s.backend = "git" ->
            [s EXCEPT !.gitworld = GitConfigRepo_init(@, r, branch),
                      !.opened[r] = GitConfigRepo_init_res(s.gitworld, r, branch) = "ok"]

\* The relational factory with a stage_snapshot_id; the other factories have no
\* such parameter
resume_res(s, r, stage_snapshot_id, branch) ==
    CASE s.backend = "memory" -> "TypeError"
      [] s.backend = "sql" ->
            SqlConfigRepo_resume_res(s.database, r, stage_snapshot_id, branch)
      [] s.backend = "git"    -> "TypeError"

resume(s, r, stage_snapshot_id, branch) ==
    CASE s.backend = "memory" -> s
      [] s.backend = "sql" ->
            [s EXCEPT !.database = SqlConfigRepo_resume(@, r, stage_snapshot_id, branch),
                      !.opened[r] = resume_res(s, r, stage_snapshot_id, branch) = "ok"]
      [] s.backend = "git"    -> s

set(s, r, key, value) ==
    CASE s.backend = "memory" -> [s EXCEPT !.memory = MemoryConfigRepo_set(@, r, key, value)]
      [] s.backend = "sql"    -> [s EXCEPT !.database = SqlConfigStage_set(@, r, key, value)]
      [] s.backend = "git"    -> [s EXCEPT !.gitworld = GitConfigStage_set(@, r, key, value)]

commit_res(s, r) ==
    CASE s.backend = "memory" -> "ok"
      [] s.backend = "sql"    -> "ok"
      [] s.backend = "git"    -> GitConfigRepo_commit_res(s.gitworld, r)

commit(s, r) ==
    CASE s.backend = "memory" -> [s EXCEPT !.memory = MemoryConfigRepo_commit(@, r)]
      [] s.backend = "sql"    -> [s EXCEPT !.database = SqlConfigRepo_commit(@, r)]
      [] s.backend = "git"    -> [s EXCEPT !.gitworld = GitConfigRepo_commit(@, r)]

\* commit() can raise: never on memory; on sql when the database refuses the
\* transaction; on git when the push is rejected
commit_can_raise(s, r) ==
    CASE s.backend = "memory" -> FALSE
      [] s.backend = "sql"    -> TRUE
      [] s.backend = "git"    -> GitConfigRepo_commit_res(s.gitworld, r) # "ok"

\* The state a commit() that raised leaves
commit_raised(s, r) ==
    CASE s.backend = "memory" -> s
      [] s.backend = "sql"    -> [s EXCEPT !.database = SqlConfigRepo_commit_rollback(@, r)]
      [] s.backend = "git"    -> [s EXCEPT !.gitworld = GitConfigRepo_commit(@, r)]

switch_branch_res(s, r, branch) ==
    CASE s.backend = "memory" -> MemoryConfigRepo_switch_branch_res(s.memory, r, branch)
      [] s.backend = "sql"    -> SqlConfigRepo_switch_branch_res(s.database, r, branch)
      [] s.backend = "git"    -> GitConfigRepo_switch_branch_res(s.gitworld, r, branch)

switch_branch(s, r, branch) ==
    CASE s.backend = "memory" ->
            [s EXCEPT !.memory = MemoryConfigRepo_switch_branch(@, r, branch)]
      [] s.backend = "sql" ->
            [s EXCEPT !.database = SqlConfigRepo_switch_branch(@, r, branch)]
      [] s.backend = "git" ->
            [s EXCEPT !.gitworld = GitConfigRepo_switch_branch(@, r, branch)]

create_branch_res(s, r, new_branch, from_branch) ==
    CASE s.backend = "memory" ->
            MemoryConfigRepo_create_branch_res(s.memory, r, new_branch, from_branch)
      [] s.backend = "sql" ->
            SqlConfigRepo_create_branch_res(s.database, r, new_branch, from_branch)
      [] s.backend = "git" ->
            GitConfigRepo_create_branch_res(s.gitworld, r, new_branch, from_branch)

create_branch(s, r, new_branch, from_branch) ==
    CASE s.backend = "memory" ->
            [s EXCEPT !.memory = MemoryConfigRepo_create_branch(@, r, new_branch, from_branch)]
      [] s.backend = "sql" ->
            [s EXCEPT !.database = SqlConfigRepo_create_branch(@, r, new_branch, from_branch)]
      [] s.backend = "git" ->
            [s EXCEPT !.gitworld = GitConfigRepo_create_branch(@, r, new_branch, from_branch)]

reload_res(s, r) ==
    CASE s.backend = "memory" -> "ok"
      [] s.backend = "sql"    -> "ok"
      [] s.backend = "git"    -> "ok"

reload(s, r) ==
    CASE s.backend = "memory" -> [s EXCEPT !.memory = MemoryConfigRepo_reload(@, r)]
      [] s.backend = "sql"    -> [s EXCEPT !.database = SqlConfigRepo_reload(@, r)]
      [] s.backend = "git"    -> [s EXCEPT !.gitworld = GitConfigRepo_reload(@, r)]

\* repo.merge(branch): only GitConfigRepo overrides ConfigRepo.merge
merge_res(s, r, branch) ==
    CASE s.backend = "memory" -> ConfigRepo_merge_res
      [] s.backend = "sql"    -> ConfigRepo_merge_res
      [] s.backend = "git"    -> GitConfigRepo_merge_res(s.gitworld, r, branch)

merge(s, r, branch) ==
    CASE s.backend = "memory" -> s
      [] s.backend = "sql"    -> s
      [] s.backend = "git"    -> [s EXCEPT !.gitworld = GitConfigRepo_merge(@, r, branch)]

\* The current stage of r holds a blob override for key
holds_blob_override(s, r, key) ==
    CASE s.backend = "memory" -> key \in DOMAIN s.memory.inst[r].data
      [] s.backend = "sql" ->
            LET item == <<s.database.inst[r].stage_snapshot_id, key>> IN
            /\ item \in DOMAIN s.database.snapshot_items
            /\ s.database.snapshot_items[item] # NULL
      [] s.backend = "git" ->
            /\ key \in DOMAIN s.gitworld.clone[r].worktree
            /\ s.gitworld.clone[r].worktree[key] #
                    DictGet(HeadTree(s.gitworld, r), key, None)

\* stage.freeze(): the state it leaves (git makes the commit in r's clone)
freeze(s, r) ==
    CASE s.backend = "memory" -> s
      [] s.backend = "sql"    -> s
      [] s.backend = "git"    -> [s EXCEPT !.gitworld = GitConfigStage_freeze(@, r)]

\* stage.freeze(): what the Snapshot it returns holds.  memory: a new dict;
\* sql: the id of the stage snapshot; git: the new commit, or self.snapshot when
\* the work tree is clean
frozen(s, r) ==
    CASE s.backend = "memory" -> MemoryConfigStage_freeze(s.memory, r)
      [] s.backend = "sql"    -> s.database.inst[r].stage_snapshot_id
      [] s.backend = "git"    ->
            IF GitConfigStage_is_dirty(s.gitworld, r)
            THEN RevParseHead(GitConfigStage_freeze(s.gitworld, r), r)
            ELSE s.gitworld.inst[r].base

\* Snapshot.get(key) of the Snapshot holding h, read in state s
snapshot_get(s, h, key) ==
    CASE s.backend = "memory" -> MemoryConfigSnapshot_get(h, key)
      [] s.backend = "sql"    -> SqlConfigSnapshot_get(s.database, h, key)
      [] s.backend = "git"    -> DictGet(s.gitworld.commits[h].tree, key, None)

\* A branch named b exists in the store instance r works on: a key of the shared
\* dict, a branch row, a branch of the remote or of r's clone
branch_exists(s, r, b) ==
    CASE s.backend = "memory" -> b \in DOMAIN s.memory.repo
      [] s.backend = "sql"    -> b \in DOMAIN s.database.branches
      [] s.backend = "git"    -> b \in DOMAIN s.gitworld.origin \cup
                                       DOMAIN s.gitworld.clone[r].refs

\* The state in which instance r is constructed: as it is, or after constructing
\* it on master
Constructed(s, r) == IF s.opened[r] THEN s ELSE init(s, r, "master")

\* The current stage of r holds a deletion of key
holds_tombstone(s, r, key) ==
    CASE s.backend = "memory" -> FALSE
      [] s.backend = "sql" ->
            LET item == <<s.database.inst[r].stage_snapshot_id, key>> IN
            /\ item \in DOMAIN s.database.snapshot_items
            /\ s.database.snapshot_items[item] = NULL
      [] s.backend = "git" ->
            /\ key \notin DOMAIN s.gitworld.clone[r].worktree
            /\ key \in DOMAIN HeadTree(s.gitworld, r)

\* ------------------------------------------------------------- operations
\* The step to the state n
Store(n) ==
    /\ backend' = n.backend
    /\ opened' = n.opened
    /\ memory' = n.memory
    /\ database' = n.database
    /\ gitworld' = n.gitworld

\* A whole call: no commit() is left half-way
Becomes(n) ==
    /\ Store(n)
    /\ UNCHANGED session

\* The model's bounds: a call happens only while the tables it grows have room
Room(n) ==
    /\ Len(n.database.snapshots) <= MaxSnapshots
    /\ Len(n.database.blobs) <= MaxBlobs
    /\ Len(n.gitworld.commits) <= MaxCommits

\* Constructing instance r on the store (again: closing and re-opening it)
Construct(r, branch) ==
    /\ Room(init(State, r, branch))
    /\ Becomes(init(State, r, branch))

\* Constructing instance r on an existing stage snapshot (relational only)
Resume(r, stage_snapshot_id, branch) ==
    /\ backend = "sql"
    /\ Becomes(resume(State, r, stage_snapshot_id, branch))

Set(r, key, value) ==
    /\ opened[r]
    /\ Room(set(State, r, key, value))
    /\ Becomes(set(State, r, key, value))

Commit(r) ==
    /\ opened[r]
    /\ Room(commit(State, r))
    /\ Becomes(commit(State, r))

SwitchBranch(r, branch) ==
    /\ opened[r]
    /\ Room(switch_branch(State, r, branch))
    /\ Becomes(switch_branch(State, r, branch))

CreateBranch(r, new_branch, from_branch) ==
    /\ opened[r]
    /\ Room(create_branch(State, r, new_branch, from_branch))
    /\ Becomes(create_branch(State, r, new_branch, from_branch))

Reload(r) ==
    /\ opened[r]
    /\ Room(reload(State, r))
    /\ Becomes(reload(State, r))

Merge(r, branch) ==
    /\ opened[r]
    /\ Room(merge(State, r, branch))
    /\ Becomes(merge(State, r, branch))

\* ------------------------------------------------------- commit(), by steps
\* No commit() of r is running
NoSession == [pc |-> "idle", txn |-> EmptyDict, old |-> {}]

Idle(r) == session[r].pc = "idle"

\* The relational store admits one writing transaction at a time
NoWriter == backend = "sql" => \A x \in Repos : Idle(x)

\* The instance that is not r
Other(r) == CHOOSE x \in Repos : x # r

\* What the other instance reads, while clean, after it read the branch of r:
\* by reload() or switch_branch() when it is constructed, and in any case by
\* construction
Observed(s, r) ==
    LET o == Other(r)
        b == current_branch(s, r)
    IN  {[k \in Keys |-> get(init(s, o, b), o, k)]} \cup
        (IF s.opened[o]
         THEN {[k \in Keys |-> get(reload(s, o), o, k)],
               [k \in Keys |-> get(switch_branch(s, o, b), o, k)]}
         ELSE {})

\* commit() up to its first write of shared state.  memory: new_base is frozen
\* (a clean stage returns at once); sql: _finalize_commit has run in the
\* session of the commit; git: freeze() has made the commit in r's own clone.
\* The field old keeps what the other instance read when the commit began.
CommitFreeze(r) ==
    /\ opened[r] /\ \A x \in Repos : Idle(x)
    /\ Len(commit(State, r).database.snapshots) <= MaxSessionSnapshots
    /\ Len(commit(State, r).gitworld.commits) <= MaxCommits
    /\ backend = "memory" => MemoryConfigStage_is_dirty(memory, r)
    /\ Store(IF backend = "git"
             THEN [State EXCEPT !.gitworld = GitConfigRepo_commit_freeze(@, r)]
             ELSE State)
    /\ session' = [session EXCEPT ![r] =
            [pc  |-> "frozen",
             txn |-> IF backend = "sql"
                     THEN SqlConfigStage_finalize_commit(database, r)
                     ELSE EmptyDict,
             old |-> Observed(State, r)]]

\* sql: the branch row and the new stage snapshot are written in the session
CommitBranch(r) ==
    /\ backend = "sql" /\ session[r].pc = "frozen"
    /\ session' = [session EXCEPT ![r].pc = "flushed",
                                  ![r].txn = SqlConfigRepo_commit_branch(@, r)]
    /\ UNCHANGED <<backend, opened, memory, database, gitworld>>

\* commit() has done everything but its write of shared state
ReadyToPublish(r) ==
    session[r].pc = (IF backend = "sql" THEN "flushed" ELSE "frozen")

\* The write of shared state that ends commit().  memory: repo[branch] is
\* assigned new_base.data, which depends on r's own base and overrides only;
\* sql: session.commit(); git: git push origin <branch>.
commit_publish(s, txn, r) ==
    CASE s.backend = "memory" -> [s EXCEPT !.memory = MemoryConfigRepo_commit(@, r)]
      [] s.backend = "sql"    -> [s EXCEPT !.database = SqlSession_commit(@, txn, r)]
      [] s.backend = "git"    -> [s EXCEPT !.gitworld = GitPush(@, r, @.inst[r].branch)]

CommitPublish(r) ==
    /\ ReadyToPublish(r)
    /\ Store(commit_publish(State, session[r].txn, r))
    /\ session' = [session EXCEPT ![r] = NoSession]

\* ------------------------------------------------------------- specification
\* An empty store on which instance A has been constructed for branch master
InitMemory ==
    MemoryConfigRepo_init(
        [repo |-> EmptyDict,
         inst |-> [r \in Repos |-> [branch |-> "master", base |-> EmptyDict,
                                    data |-> EmptyDict]]],
        "A", "master")

InitDatabase ==
    SqlConfigRepo_init(
        [blobs |-> << >>, snapshots |-> << >>, snapshot_items |-> EmptyDict,
         branches |-> EmptyDict,
         inst |-> [r \in Repos |-> [branch |-> "master", parent_snapshot |-> NULL,
                                    stage_snapshot_id |-> NULL]]],
        "A", "master")

\* The remote holds branch master with one empty commit; A is a clone of it
InitGitworld ==
    GitConfigRepo_init(
        [commits |-> <<CommitObject(EmptyDict, {})>>,
         origin |-> DictPut(EmptyDict, "master", 1),
         clone |-> [r \in Repos |-> NoClone],
         inst |-> [r \in Repos |-> [branch |-> "master", base |-> NULL]]],
        "A", "master")

Init ==
    /\ backend \in Backends
    /\ opened = [r \in Repos |-> r = "A"]
    /\ memory = InitMemory
    /\ database = InitDatabase
    /\ gitworld = InitGitworld
    /\ session = [r \in Repos |-> NoSession]

Calls(r) ==
    \/ \E b \in BranchNames : Construct(r, b)
    \/ \E k \in WrittenKeys, v \in WrittenBlobs \cup {None} : Set(r, k, v)
    \/ Commit(r)
    \/ \E b \in BranchNames : SwitchBranch(r, b)
    \/ \E b \in BranchNames, f \in BranchNames \cup {None} : CreateBranch(r, b, f)
    \/ Reload(r)
    \/ \E b \in BranchNames : Merge(r, b)

\* One Repo instance at a time on the store
Next == Calls("A")

Spec == Init /\ [][Next]_vars

\* Two Repo instances on one store, both on branch master; the relational
\* factory may also resume a stage snapshot
CallsTwo(r) ==
    \/ Construct(r, "master")
    \/ \E sid \in 1..MaxSnapshots : Resume(r, sid, "master")
    \/ \E v \in WrittenBlobs \cup {None} : Set(r, "a", v)
    \/ Commit(r)
    \/ Reload(r)
    \/ CreateBranch(r, "dev", None)

NextTwo == CallsTwo("A") \/ CallsTwo("B")

SpecTwo == Init /\ [][NextTwo]_vars

\* A stages and commits step by step while B reads the branch, by construction
\* and by reload
NextCommit ==
    \/ \E k \in WrittenKeys, v \in WrittenBlobs \cup {None} : Idle("A") /\ Set("A", k, v)
    \/ CommitFreeze("A")
    \/ CommitBranch("A")
    \/ CommitPublish("A")
    \/ NoWriter /\ Construct("B", "master")
    \/ Reload("B")

SpecCommit == Init /\ [][NextCommit]_vars

\* ------------------------------------------------------------- properties
\* Each property is stated on a reachable state of the store: the call sequence
\* it is about is applied to that state and the outcome is compared.
Value(d, k) == DictGet(d, k, None)

Values == Blobs \cup {None}

\* C1: read-your-writes.  From any reachable state and for any key k and blob v,
\* set(k, v); commit(); get(k) returns v.
C1_ReadYourWrites ==
    opened["A"] =>
        \A k \in Keys, v \in Blobs :
            LET s1 == set(State, "A", k, v) IN
            commit_res(s1, "A") = "ok" => get(commit(s1, "A"), "A", k) = v

\* A state that set(k, v); commit() has produced: the stage is clean and the
\* head of the current branch and get(k) both give a blob
C1_Witness ==
    /\ opened["A"] /\ ~is_dirty(State, "A")
    /\ \E k \in Keys, v \in Blobs :
        /\ get(State, "A", k) = v
        /\ Value(branch_head(State, "A", current_branch(State, "A")), k) = v

\* C2: in a run that starts from a freshly constructed Repo, is_dirty() is true
\* right after any set(k, v) with a blob v, and false right after commit()
\* returns.
C2_DirtyAfterSetCleanAfterCommit ==
    opened["A"] =>
        \A k \in Keys, v \in Blobs :
            LET s1 == set(State, "A", k, v) IN
            /\ is_dirty(s1, "A")
            /\ commit_res(s1, "A") = "ok" => ~is_dirty(commit(s1, "A"), "A")

\* C3: tombstone erasure.  set(k, v); commit(); set(k, absent); commit(); get(k)
\* returns absent.
C3_TombstoneErasure ==
    opened["A"] =>
        \A k \in Keys, v \in Blobs :
            LET s1 == set(State, "A", k, v)
                s2 == set(commit(s1, "A"), "A", k, None)
            IN  (commit_res(s1, "A") = "ok" /\ commit_res(s2, "A") = "ok")
                    => get(commit(s2, "A"), "A", k) = None

\* C4: when the stage holds a blob override for k, after set(k, absent) get(k)
\* returns absent and is_dirty() is still true.
C4_TombstoneOverTrackedKey ==
    opened["A"] =>
        \A k \in Keys :
            holds_blob_override(State, "A", k) =>
                LET s1 == set(State, "A", k, None) IN
                get(s1, "A", k) = None /\ is_dirty(s1, "A")

\* C5: branch isolation.  A set and commit performed while on one branch leaves
\* the committed head content of every other branch unchanged.
C5_BranchIsolation ==
    opened["A"] =>
        \A k \in Keys, v \in Values :
            LET s1 == set(State, "A", k, v) IN
            commit_res(s1, "A") = "ok" =>
                \A b \in BranchNames \ {current_branch(State, "A")} :
                    branch_head(commit(s1, "A"), "A", b) = branch_head(State, "A", b)

\* C6: after a successful switch_branch(b) on a clean stage, the Repo is on b,
\* is_dirty() is false and get(k) is the value of k in the committed head of b,
\* for every key k.
C6_SwitchBranchRepoints ==
    opened["A"] =>
        \A b \in BranchNames :
            (~is_dirty(State, "A") /\ switch_branch_res(State, "A", b) = "ok") =>
                LET s1 == switch_branch(State, "A", b) IN
                /\ current_branch(s1, "A") = b
                /\ ~is_dirty(s1, "A")
                /\ \A k \in Keys : get(s1, "A", k) = Value(branch_head(s1, "A", b), k)

\* A clean Repo on master, with branch dev committed and different from master
\* on some key, so that switch_branch("dev") changes what get returns
C6_Witness ==
    /\ opened["A"] /\ ~is_dirty(State, "A")
    /\ current_branch(State, "A") = "master"
    /\ "dev" \in list_branches(State, "A")
    /\ switch_branch_res(State, "A", "dev") = "ok"
    /\ \E k \in Keys :
        /\ get(switch_branch(State, "A", "dev"), "A", k) # get(State, "A", k)
        /\ get(switch_branch(State, "A", "dev"), "A", k) # None

\* C7: dirty guard.  While is_dirty() is true, switch_branch(any name) raises and
\* changes nothing: branch, stage overrides, dirtiness and branch pointers.
C7_DirtyGuard ==
    (opened["A"] /\ is_dirty(State, "A")) =>
        \A b \in BranchNames :
            /\ switch_branch_res(State, "A", b) = "RuntimeError"
            /\ switch_branch(State, "A", b) = State

\* A dirty Repo on master with a staged blob, while branch dev exists
C7_Witness ==
    /\ opened["A"] /\ is_dirty(State, "A")
    /\ current_branch(State, "A") = "master"
    /\ "dev" \in list_branches(State, "A")
    /\ \E k \in Keys : holds_blob_override(State, "A", k)

\* C8: commit() on a clean stage leaves the head of the current branch the same
\* snapshot and creates no branch; a second commit() in a row yields the same
\* head as the first.
C8_CommitNoOpWhenClean ==
    opened["A"] =>
        LET b  == current_branch(State, "A")
            s1 == commit(State, "A")
            s2 == commit(s1, "A")
        IN  /\ ~is_dirty(State, "A") =>
                /\ head_id(s1, "A", b) = head_id(State, "A", b)
                /\ list_branches(s1, "A") = list_branches(State, "A")
            /\ head_id(s2, "A", b) = head_id(s1, "A", b)

\* C9: persistence across re-open.  After set(k, v); commit(), a Repo constructed
\* anew on the same location and branch gives get(k) = v, and for every key the
\* value of the committed head.
C9_PersistenceAcrossReopen ==
    opened["A"] =>
        \A k \in Keys, v \in Blobs :
            LET s1 == set(State, "A", k, v)
                s2 == commit(s1, "A")
                b  == current_branch(s2, "A")
                s3 == init(s2, "A", b)
            IN  (commit_res(s1, "A") = "ok" /\ init_res(s2, "A", b) = "ok") =>
                    /\ get(s3, "A", k) = v
                    /\ \A j \in Keys : get(s3, "A", j) = Value(branch_head(s3, "A", b), j)

\* C10: merge, disjoint union.  From a clean master without a branch dev:
\* create dev, commit key kd on dev only and key km on master only, then
\* merge("dev") on master and commit(): master has kd at dev's value, km at
\* master's value, and every other key as in the common base.
C10_MergeDisjointUnion ==
    (/\ opened["A"] /\ ~is_dirty(State, "A")
     /\ current_branch(State, "A") = "master"
     /\ "dev" \notin list_branches(State, "A")) =>
        \A kd, km \in Keys, vd, vm \in Blobs :
            (kd # km /\ get(State, "A", kd) = None /\ get(State, "A", km) = None) =>
                LET s1 == switch_branch(create_branch(State, "A", "dev", None), "A", "dev")
                    s2 == commit(set(s1, "A", kd, vd), "A")
                    s3 == switch_branch(s2, "A", "master")
                    s4 == commit(set(s3, "A", km, vm), "A")
                    s5 == commit(merge(s4, "A", "dev"), "A")
                IN  /\ merge_res(s4, "A", "dev") = "ok"
                    /\ get(s5, "A", kd) = vd
                    /\ get(s5, "A", km) = vm
                    /\ \A j \in Keys \ {kd, km} : get(s5, "A", j) = get(State, "A", j)

\* A clean Repo on master in a store that has no branch dev yet: the start of
\* the merge scenarios
CleanOnMasterWithoutDev ==
    /\ opened["A"] /\ ~is_dirty(State, "A")
    /\ current_branch(State, "A") = "master"
    /\ "dev" \notin list_branches(State, "A")

\* C11: merge, source wins.  From a common base, dev commits k = vd and master
\* commits k = vm, two different values that both differ from the base; after
\* merge("dev") on master and commit(), get(k) returns vd.
C11_MergeSourceWins ==
    CleanOnMasterWithoutDev =>
        \A k \in Keys, vd, vm \in Blobs :
            (vd # vm /\ get(State, "A", k) \notin {vd, vm}) =>
                LET s1 == switch_branch(create_branch(State, "A", "dev", None), "A", "dev")
                    s2 == commit(set(s1, "A", k, vd), "A")
                    s3 == switch_branch(s2, "A", "master")
                    s4 == commit(set(s3, "A", k, vm), "A")
                    s5 == commit(merge(s4, "A", "dev"), "A")
                IN  /\ merge_res(s4, "A", "dev") = "ok"
                    /\ get(s5, "A", k) = vd

\* C12: merge, common invariant.  After merge(source) and commit() on a clean
\* Repo, every key the source head defines reads as in the source head, and
\* every other key reads as on the target before the merge.
C12_MergeCommonInvariant ==
    (opened["A"] /\ ~is_dirty(State, "A")) =>
        \A b \in list_branches(State, "A") \ {current_branch(State, "A")} :
            LET source == branch_head(State, "A", b)
                s1 == commit(merge(State, "A", b), "A")
            IN  /\ merge_res(State, "A", b) # "NotImplementedError"
                /\ merge_res(State, "A", b) = "ok" =>
                    \A k \in Keys :
                        get(s1, "A", k) = IF k \in DOMAIN source THEN source[k]
                                          ELSE get(State, "A", k)

\* C13: merge propagates deletions.  k is committed on master, dev is branched
\* from master and commits the deletion of k; after switch_branch("master") and
\* merge("dev"), get(k) on master returns absent.
C13_MergePropagatesDeletions ==
    CleanOnMasterWithoutDev =>
        \A k \in Keys :
            get(State, "A", k) # None =>
                LET s1 == switch_branch(create_branch(State, "A", "dev", None), "A", "dev")
                    s2 == commit(set(s1, "A", k, None), "A")
                    s3 == switch_branch(s2, "A", "master")
                    s4 == merge(s3, "A", "dev")
                IN  /\ merge_res(s3, "A", "dev") = "ok"
                    /\ get(s4, "A", k) = None

\* Repo instances A and B are both constructed and bound to the same branch
BothOnOneBranch ==
    /\ opened["A"] /\ opened["B"]
    /\ current_branch(State, "A") = current_branch(State, "B")

\* C14: cross-Repo visibility.  A and B are on the same branch; once A's
\* set(k, v); commit() has returned, reload() on a clean B makes B.get(k)
\* return v.
C14_CrossRepoVisibility ==
    BothOnOneBranch =>
        \A k \in Keys, v \in Blobs :
            LET s1 == set(State, "A", k, v)
                s2 == commit(s1, "A")
            IN  (commit_res(s1, "A") = "ok" /\ ~is_dirty(s2, "B")) =>
                    get(reload(s2, "B"), "B", k) = v

\* C15: stale until re-read.  What B's get returns does not change through a
\* set or a commit of A.
C15_StaleUntilReRead ==
    (opened["A"] /\ opened["B"]) =>
        \A j \in Keys :
            /\ \A k \in Keys, v \in Values :
                    get(set(State, "A", k, v), "B", j) = get(State, "B", j)
            /\ get(commit(State, "A"), "B", j) = get(State, "B", j)

\* C17: last committer wins.  On the memory and relational stores, when A and
\* B, on the same branch, both stage a change and then commit one after the
\* other, the branch head is the snapshot of the second commit, and its content
\* is the second committer's own parent overlaid with its own overrides: what
\* that Repo's get returned before the commits.
C17_LastCommitterWins ==
    (backend \in {"memory", "sql"} /\ BothOnOneBranch) =>
        \A ka, kb \in Keys, va, vb \in Blobs :
            LET b  == current_branch(State, "A")
                s0 == set(set(State, "A", ka, va), "B", kb, vb)
                ab == commit(commit(s0, "A"), "B")
                ba == commit(commit(s0, "B"), "A")
            IN  /\ \A k \in Keys : Value(branch_head(ab, "A", b), k) = get(s0, "B", k)
                /\ \A k \in Keys : Value(branch_head(ba, "A", b), k) = get(s0, "A", k)
                /\ backend = "sql" =>
                    /\ head_id(ab, "A", b) = s0.database.inst["B"].stage_snapshot_id
                    /\ head_id(ba, "A", b) = s0.database.inst["A"].stage_snapshot_id

\* C18: concurrent staging is safe.  A set of A changes neither what B's get
\* returns nor B's is_dirty().
C18_ConcurrentStagingSafe ==
    (opened["A"] /\ opened["B"]) =>
        \A k \in Keys, v \in Values :
            LET s1 == set(State, "A", k, v) IN
            /\ is_dirty(s1, "B") = is_dirty(State, "B")
            /\ \A j \in Keys : get(s1, "B", j) = get(State, "B", j)

\* C19: on the relational backend every branch row references a snapshot whose
\* committed flag is true.
C19_BranchPointsToCommitted ==
    backend = "sql" =>
        \A b \in DOMAIN database.branches :
            /\ database.branches[b] \in DOMAIN database.snapshots
            /\ database.snapshots[database.branches[b]].committed

\* Two branch rows exist (commit and create_branch have both written one) while
\* B holds a stage that is not committed
C19_Witness ==
    /\ backend = "sql" /\ opened["B"]
    /\ DOMAIN database.branches = {"master", "dev"}
    /\ ~database.snapshots[database.inst["B"].stage_snapshot_id].committed

\* The rows of snapshot sid, each with the content of its blob
SnapshotRows(d, sid) ==
    [it \in {x \in DOMAIN d.snapshot_items : x[1] = sid} |->
        IF d.snapshot_items[it] = NULL THEN <<NULL, None>>
        ELSE <<d.snapshot_items[it], d.blobs[d.snapshot_items[it]]>>]

\* C20: snapshot immutability.  No call of any Repo changes the rows of a
\* snapshot that is committed, nor the content of a blob such a row references.
C20_SnapshotImmutability ==
    [][backend = "sql" =>
        \A sid \in DOMAIN database.snapshots :
            database.snapshots[sid].committed =>
                /\ database'.snapshots[sid].committed
                /\ SnapshotRows(database', sid) = SnapshotRows(database, sid)]_vars

\* C16: commit is atomic per branch.  While A executes commit(), what another
\* Repo reads after reading the branch is what it read when the commit began
\* (the old head); once the commit has written the shared state it is, for all
\* keys together, what the committing Repo A reads (the new head); and on the
\* relational store every branch row references a committed snapshot.
C16_CommitAtomic ==
    /\ ~Idle("A") => Observed(State, "A") \subseteq session["A"].old
    /\ ReadyToPublish("A") =>
            Observed(commit_publish(State, session["A"].txn, "A"), "A")
                = {[k \in Keys |-> get(State, "A", k)]}
    /\ backend = "sql" =>
            \A b \in DOMAIN database.branches :
                database.snapshots[database.branches[b]].committed

\* A's commit() is half-way (on sql the branch row is written in the session,
\* not yet committed), B is constructed, the head holds a key and A's stage
\* adds another
C16_Witness ==
    /\ opened["B"]
    /\ ReadyToPublish("A")
    /\ \E k, j \in Keys :
            /\ k # j
            /\ Value(branch_head(State, "B", "master"), k) # None
            /\ Value(branch_head(State, "B", "master"), j) = None
            /\ get(State, "A", j) # None

\* C21: reload() does not reset a dirty stage.  When the stage holds overrides,
\* after reload() is_dirty() is still true and every overridden key still reads
\* as staged.
C21_ReloadKeepsDirtyStage ==
    \A r \in Repos :
        (opened[r] /\ is_dirty(State, r)) =>
            LET s1 == reload(State, r) IN
            /\ is_dirty(s1, r)
            /\ \A k \in Keys :
                    (holds_blob_override(State, r, k) \/ holds_tombstone(State, r, k)) =>
                        get(s1, r, k) = get(State, r, k)

\* C22: a commit that fails leaves the stage untouched.  When commit() raises
\* on a dirty stage, the Repo afterwards is still dirty and get returns what it
\* returned before the call.
C22_FailedCommitKeepsStage ==
    \A r \in Repos :
        (opened[r] /\ is_dirty(State, r) /\ commit_can_raise(State, r)) =>
            LET s1 == commit_raised(State, r) IN
            /\ is_dirty(s1, r)
            /\ \A k \in Keys : get(s1, r, k) = get(State, r, k)

\* The names given to a new branch in the properties
NewBranchNames == BranchNames \cup {"feature"}

\* C23: create_branch copies the committed head.  After a successful
\* create_branch(new, from), from defaulting to the current branch, the head of
\* new has exactly the content the head of from had; overrides of the stage are
\* not part of it.
C23_CreateBranchCopiesHead ==
    opened["A"] =>
        \A new \in NewBranchNames, from \in BranchNames \cup {None} :
            LET source == IF from = None THEN current_branch(State, "A") ELSE from
                s1 == create_branch(State, "A", new, from)
            IN  create_branch_res(State, "A", new, from) = "ok" =>
                    branch_head(s1, "A", new) = branch_head(State, "A", source)

\* C24: create_branch only duplicates a branch pointer.  create_branch(new) from
\* the current branch leaves the Repo on its branch with its stage and its get
\* results as they were, and a following set(k, v); commit() advances the head
\* of the current branch and leaves the head of new as it was.
C24_CreateBranchOnlyAddsPointer ==
    opened["A"] =>
        \A new \in NewBranchNames :
            LET b  == current_branch(State, "A")
                s1 == create_branch(State, "A", new, None)
            IN  (new # b /\ create_branch_res(State, "A", new, None) = "ok") =>
                    /\ current_branch(s1, "A") = b
                    /\ is_dirty(s1, "A") = is_dirty(State, "A")
                    /\ \A k \in Keys : get(s1, "A", k) = get(State, "A", k)
                    /\ \A k \in Keys, v \in Blobs :
                            LET s2 == commit(set(s1, "A", k, v), "A") IN
                            commit_res(set(s1, "A", k, v), "A") = "ok" =>
                                /\ Value(branch_head(s2, "A", b), k) = v
                                /\ branch_head(s2, "A", new) = branch_head(s1, "A", new)

\* C25: create_branch(new, ...) fails whenever a branch named new exists in the
\* store, and then changes nothing.
C25_CreateBranchExisting ==
    \A r \in Repos :
        LET s == Constructed(State, r) IN
        \A new \in BranchNames, from \in BranchNames \cup {None} :
            branch_exists(s, r, new) =>
                /\ create_branch_res(s, r, new, from) # "ok"
                /\ create_branch(s, r, new, from) = s

\* C26: create_branch(new, from) fails when from, defaulting to the current
\* branch, is not a branch with a committed head, and then no branch new exists.
C26_CreateBranchMissingSource ==
    opened["A"] =>
        \A new \in NewBranchNames, from \in NewBranchNames \cup {None} :
            LET source == IF from = None THEN current_branch(State, "A") ELSE from
                s1 == create_branch(State, "A", new, from)
            IN  (source \notin list_branches(State, "A") /\ ~branch_exists(State, "A", new)) =>
                    /\ create_branch_res(State, "A", new, from) # "ok"
                    /\ new \notin list_branches(s1, "A")

\* C27: switch_branch(name) on a clean stage fails when name is not a known
\* branch, and leaves the Repo bound to its previous branch and head.
C27_SwitchBranchMissing ==
    (opened["A"] /\ ~is_dirty(State, "A")) =>
        \A name \in NewBranchNames :
            ~branch_exists(State, "A", name) =>
                /\ switch_branch_res(State, "A", name) # "ok"
                /\ switch_branch(State, "A", name) = State

\* C28: setting a value equal to the committed one still marks dirty.  On a
\* clean stage whose head maps k to v, after set(k, v) is_dirty() is true.
C28_SetCommittedValueMarksDirty ==
    (opened["A"] /\ ~is_dirty(State, "A")) =>
        \A k \in Keys :
            LET v == Value(branch_head(State, "A", current_branch(State, "A")), k) IN
            (v # None /\ get(State, "A", k) = v) =>
                is_dirty(set(State, "A", k, v), "A")

\* C29: set is idempotent.  set(k, x) twice in a row leaves the Repo as set(k, x)
\* once does: the same get for every key, the same is_dirty(), and the same
\* branch heads after a following commit().
C29_SetIdempotent ==
    opened["A"] =>
        \A k \in Keys, x \in Values :
            LET s1 == set(State, "A", k, x)
                s2 == set(s1, "A", k, x)
            IN  /\ \A j \in Keys : get(s2, "A", j) = get(s1, "A", j)
                /\ is_dirty(s2, "A") = is_dirty(s1, "A")
                /\ commit_res(s2, "A") = commit_res(s1, "A")
                /\ \A b \in NewBranchNames :
                        branch_head(commit(s2, "A"), "A", b) =
                            branch_head(commit(s1, "A"), "A", b)

\* The stage holds an override of a key above a head that holds keys, so that
\* the second set meets the row, the entry or the file of the first
C29_Witness ==
    /\ opened["A"] /\ is_dirty(State, "A")
    /\ \E k \in Keys : holds_blob_override(State, "A", k)
    /\ branch_head(State, "A", current_branch(State, "A")) # EmptyDict

\* C30: freeze returns the parent overlaid with the overrides.  The Snapshot
\* that stage.freeze() returns answers get(k) for every key as the stage does at
\* the moment of the call, and a later set on the stage does not change what it
\* answers.
C30_FreezeIsParentPlusOverrides ==
    opened["A"] =>
        LET h  == frozen(State, "A")
            s1 == freeze(State, "A")
        IN  /\ \A k \in Keys : snapshot_get(s1, h, k) = get(State, "A", k)
            /\ \A k, j \in Keys, v \in Values :
                    snapshot_get(set(s1, "A", j, v), h, k) = snapshot_get(s1, h, k)

\* C31: constructing a relational Repo on a stage_snapshot_id whose snapshot is
\* committed fails, gives no Repo and writes no row.
C31_ResumeCommittedFails ==
    backend = "sql" =>
        \A r \in Repos, branch \in BranchNames, sid \in DOMAIN database.snapshots :
            database.snapshots[sid].committed =>
                LET s1 == resume(State, r, sid, branch) IN
                /\ resume_res(State, r, sid, branch) = "ValueError"
                /\ ~s1.opened[r]
                /\ s1.database.snapshots = database.snapshots
                /\ s1.database.snapshot_items = database.snapshot_items
                /\ s1.database.blobs = database.blobs
                /\ s1.database.branches = database.branches

\* A was constructed on a stage_snapshot_id and the constructor raised, in a
\* store whose snapshot rows all exist and one of which is committed
C31_Witness ==
    /\ backend = "sql" /\ ~opened["A"]
    /\ Len(database.snapshots) = MaxSnapshots
    /\ \E sid \in DOMAIN database.snapshots : database.snapshots[sid].committed

\* C32: list_branches() returns all known branches.  After a successful
\* create_branch(new) by one Repo, and after a successful commit() on a
\* branch, list_branches() of every Repo on the store contains that branch.
C32_ListBranchesKnowsAll ==
    \A r, o \in Repos :
        (opened[r] /\ opened[o]) =>
            /\ \A new \in NewBranchNames :
                    create_branch_res(State, r, new, None) = "ok" =>
                        new \in list_branches(create_branch(State, r, new, None), o)
            /\ commit_res(State, r) = "ok" =>
                    current_branch(State, r) \in list_branches(commit(State, r), o)

\* reload() with the outcome of its two git calls given: `git pull` raises when
\* the remote cannot be reached and `git rev-parse HEAD` raises when the local
\* head cannot be read.  Both except-clauses swallow the error; the second
\* leaves the Repo on MemoryConfigSnapshot({}), written here as base NULL.
GitConfigRepo_reload_with_res(g, r, remote_reachable, head_readable) == "ok"

GitConfigRepo_reload_with(g, r, remote_reachable, head_readable) ==
    LET p == IF remote_reachable THEN GitPull(g, r, g.inst[r].branch) ELSE g IN
    [p EXCEPT !.inst[r].base = IF head_readable THEN RevParseHead(p, r) ELSE NULL]

\* C33: on the VCS backend a reload() that cannot reach the remote while the
\* local head is readable completes and leaves the local head and work tree as
\* they were; a reload() whose local head is unreadable raises.
C33_ReloadBestEffort ==
    backend = "git" =>
        \A r \in Repos :
            opened[r] =>
                /\ GitConfigRepo_reload_with_res(gitworld, r, FALSE, TRUE) = "ok"
                /\ GitConfigRepo_reload_with(gitworld, r, FALSE, TRUE).clone[r] = gitworld.clone[r]
                /\ \A remote_reachable \in BOOLEAN :
                        GitConfigRepo_reload_with_res(gitworld, r, remote_reachable, FALSE) # "ok"

\* ------------------------------------------- two backends, the same calls
\* The memory backend and the relational backend each start from an empty store
\* with one Repo on master, and every call is made on both.
OnMemory(s) == [s EXCEPT !.backend = "memory"]

OnSql(s) == [s EXCEPT !.backend = "sql"]

\* The pair of stores after a call took the memory store to m and the
\* relational store to q
Paired(m, q) ==
    [backend |-> "both", opened |-> opened, memory |-> m.memory,
     database |-> q.database, gitworld |-> gitworld]

BothSet(r, key, value) ==
    LET n == Paired(set(OnMemory(State), r, key, value), set(OnSql(State), r, key, value))
    IN  opened[r] /\ Room(n) /\ Becomes(n)

BothCommit(r) ==
    LET n == Paired(commit(OnMemory(State), r), commit(OnSql(State), r))
    IN  opened[r] /\ Room(n) /\ Becomes(n)

BothSwitchBranch(r, branch) ==
    LET n == Paired(switch_branch(OnMemory(State), r, branch),
                    switch_branch(OnSql(State), r, branch))
    IN  opened[r] /\ Room(n) /\ Becomes(n)

BothCreateBranch(r, new_branch, from_branch) ==
    LET n == Paired(create_branch(OnMemory(State), r, new_branch, from_branch),
                    create_branch(OnSql(State), r, new_branch, from_branch))
    IN  opened[r] /\ Room(n) /\ Becomes(n)

BothReload(r) ==
    LET n == Paired(reload(OnMemory(State), r), reload(OnSql(State), r))
    IN  opened[r] /\ Room(n) /\ Becomes(n)

InitBoth ==
    /\ backend = "both"
    /\ opened = [r \in Repos |-> r = "A"]
    /\ memory = InitMemory
    /\ database = InitDatabase
    /\ gitworld = InitGitworld
    /\ session = [r \in Repos |-> NoSession]

NextBoth ==
    \/ \E k \in WrittenKeys, v \in WrittenBlobs \cup {None} : BothSet("A", k, v)
    \/ BothCommit("A")
    \/ \E b \in BranchNames : BothSwitchBranch("A", b)
    \/ \E b \in BranchNames, f \in BranchNames \cup {None} : BothCreateBranch("A", b, f)
    \/ BothReload("A")

SpecBoth == InitBoth /\ [][NextBoth]_vars

\* C34: the memory backend and the relational backend are observationally
\* equivalent.  After every sequence of set, commit, create_branch,
\* switch_branch and reload made on both from an empty store, every get and
\* is_dirty returns the same on both, and the next call succeeds on both or
\* fails on both.
C34_MemorySqlEquivalent ==
    backend = "both" =>
        LET m == OnMemory(State)
            q == OnSql(State)
        IN  /\ \A k \in Keys : get(m, "A", k) = get(q, "A", k)
            /\ is_dirty(m, "A") = is_dirty(q, "A")
            /\ (commit_res(m, "A") = "ok") = (commit_res(q, "A") = "ok")
            /\ \A b \in BranchNames :
                    (switch_branch_res(m, "A", b) = "ok") = (switch_branch_res(q, "A", b) = "ok")
            /\ \A b \in BranchNames, f \in BranchNames \cup {None} :
                    (create_branch_res(m, "A", b, f) = "ok") = (create_branch_res(q, "A", b, f) = "ok")

\* C35: commit-time finalization makes relational snapshots self-contained.
\* The snapshot a successful commit() commits holds an item for every key the
\* parent snapshot used at commit time has an item for (the parent's blob_id,
\* NULL included, unless the stage has its own item), and reading it one level
\* deep gives the parent overlaid with the stage's overrides.
C35_FinalizedSelfContained ==
    backend = "sql" =>
        \A r \in Repos :
            (opened[r] /\ commit_res(State, r) = "ok") =>
                LET sid    == database.inst[r].stage_snapshot_id
                    parent == database.inst[r].parent_snapshot
                    items  == database.snapshot_items
                    d1     == commit(State, r).database
                IN  /\ d1.snapshots[sid].committed
                    /\ \A k \in Keys :
                        /\ (parent # NULL /\ <<parent, k>> \in DOMAIN items) =>
                                /\ <<sid, k>> \in DOMAIN d1.snapshot_items
                                /\ <<sid, k>> \notin DOMAIN items =>
                                        d1.snapshot_items[<<sid, k>>] = items[<<parent, k>>]
                        /\ <<sid, k>> \in DOMAIN items =>
                                d1.snapshot_items[<<sid, k>>] = items[<<sid, k>>]
                        /\ SqlConfigSnapshot_get(d1, sid, k)
                                = IF <<sid, k>> \in DOMAIN items
                                  THEN SqlConfigSnapshot_get(database, sid, k)
                                  ELSE IF parent # NULL
                                       THEN SqlConfigSnapshot_get(database, parent, k)
                                       ELSE None

\* A Repo on a parent snapshot that holds a blob and a tombstone, its stage
\* overriding one of the two keys only
C35_Witness ==
    /\ backend = "sql" /\ opened["A"]
    /\ LET sid    == database.inst["A"].stage_snapshot_id
           parent == database.inst["A"].parent_snapshot
           items  == database.snapshot_items
       IN  /\ parent # NULL
           /\ \E k1, k2 \in Keys :
                /\ <<parent, k1>> \in DOMAIN items /\ items[<<parent, k1>>] = NULL
                /\ <<parent, k2>> \in DOMAIN items /\ items[<<parent, k2>>] # NULL
                /\ \E k \in {k1, k2} : <<sid, k>> \in DOMAIN items
                /\ \E k \in {k1, k2} : <<sid, k>> \notin DOMAIN items
    /\ commit_res(State, "A") = "ok"

\* The walk over the stored parent_id column: the first snapshot from sid
\* upwards that has an item for key decides (its blob, or None for NULL)
RECURSIVE ParentChainGet(_, _, _)
ParentChainGet(d, sid, key) ==
    IF sid = NULL THEN None
    ELSE IF <<sid, key>> \in DOMAIN d.snapshot_items
         THEN SqlConfigSnapshot_get(d, sid, key)
         ELSE ParentChainGet(d, d.snapshots[sid].parent_id, key)

\* C36: the relational get matches the parent-chain walk.  In every reachable
\* state, what get(k) returns (the stage's item, else one level up in the
\* Repo's parent snapshot) is what the walk over the stored parent_id chain
\* from the stage snapshot row returns.
C36_GetMatchesChainWalk ==
    backend = "sql" =>
        \A r \in Repos :
            opened[r] =>
                \A k \in Keys :
                    get(State, r, k)
                        = ParentChainGet(database, database.inst[r].stage_snapshot_id, k)

\* C37: a commit on a clean stage never changes content.  On every backend,
\* commit() while is_dirty() is false leaves get(k) of the Repo and the content
\* of the head of every branch as they were, and leaves is_dirty() false.
C37_CleanCommitKeepsContent ==
    \A r \in Repos :
        (opened[r] /\ ~is_dirty(State, r)) =>
            LET s1 == commit(State, r) IN
            /\ \A k \in Keys : get(s1, r, k) = get(State, r, k)
            /\ \A b \in BranchNames : branch_head(s1, r, b) = branch_head(State, r, b)
            /\ ~is_dirty(s1, r)

\* C38: resuming a relational stage restores it.  When a Repo holds staged
\* overrides on a stage snapshot that is not committed, a Repo constructed with
\* that stage_snapshot_id has the is_dirty() and, for every key, the get(k) of
\* the original, and no stage snapshot is allocated for it.
C38_ResumeRestoresStage ==
    backend = "sql" =>
        \A r, o \in Repos :
            LET sid == database.inst[r].stage_snapshot_id IN
            (/\ opened[r]
             /\ is_dirty(State, r)
             /\ ~database.snapshots[sid].committed) =>
                LET s1 == resume(State, o, sid, current_branch(State, r)) IN
                /\ resume_res(State, o, sid, current_branch(State, r)) = "ok"
                /\ s1.opened[o]
                /\ is_dirty(s1, o) = is_dirty(State, r)
                /\ \A k \in Keys : get(s1, o, k) = get(State, r, k)
                /\ s1.database.inst[o].stage_snapshot_id = sid
                /\ s1.database.snapshots = database.snapshots

====
